---- MODULE Spec2Model ----
(***************************************************************************)
(* Model of recursive_dump.py: discovery of the tables related to a start  *)
(* table through foreign keys (dfs), the multi-pass ordering with a        *)
(* confirm prompt per ready table, and the TRUNCATE / INSERT sections of   *)
(* the dump file written by main.                                          *)
(***************************************************************************)
EXTENDS Integers, Sequences, FiniteSets, TLC

(* ---------------------------------------------------------------------- *)
(* Bounds of the model                                                     *)
(* ---------------------------------------------------------------------- *)

\* at most this many foreign keys in the schema
MaxEdges == 3

\* at most this many rows in a table
MaxRows == 1

\* rows per INSERT statement: stands for the 1000 of dump_table, scaled down
\* to the row counts of the model
BatchSize == 2

\* at most this many rows fetched when dump_table is examined on its own
MaxFetched == 20

\* table names of the schema, in lexicographic order
Names == <<"A", "B", "C">>

Tables == {Names[i] : i \in 1..Len(Names)}

\* the foreign-key column that references a table is named after it
FkCol(t) == IF t = "A" THEN "a_id" ELSE IF t = "B" THEN "b_id" ELSE "c_id"

\* foreign-key column names a table may have
Cols == {FkCol(t) : t \in Tables}

\* what the user may type at the "Dump table ...? (y/n) [y]:" prompt,
\* as sequences of characters
Responses ==
  { <<>>, <<" ">>, <<"y">>, <<" ", "Y", " ">>, <<"n">>, <<"y", "e", "s">> }

(* ---------------------------------------------------------------------- *)
(* Helpers on sequences                                                    *)
(* ---------------------------------------------------------------------- *)

Range(s) == {s[i] : i \in 1..Len(s)}

\* every list that enumerates the set S once: the orders in which a catalog
\* query may return its rows
Orderings(S) ==
  {s \in [1..Cardinality(S) -> S] : \A i, j \in 1..Cardinality(S) : s[i] = s[j] => i = j}

Reverse(s) == [i \in 1..Len(s) |-> s[Len(s) + 1 - i]]

\* position of a table name in the lexicographic order of names
Rank(t) == CHOOSE i \in 1..Len(Names) : Names[i] = t

\* sorted(S) for a set S of table names
Sorted(S) ==
  CHOOSE s \in Orderings(S) : \A i, j \in 1..Len(s) : i < j => Rank(s[i]) < Rank(s[j])

\* index of the first occurrence of x in s, 0 when absent
IndexOf(s, x) ==
  IF x \in Range(s) THEN CHOOSE i \in 1..Len(s) : s[i] = x /\ \A j \in 1..(i - 1) : s[j] # x
  ELSE 0

\* [x for x in s if x != name]
Without(s, name) == SelectSeq(s, LAMBDA x : x # name)

(* ---------------------------------------------------------------------- *)
(* str.strip() and str.lower() on the prompt's response                    *)
(* ---------------------------------------------------------------------- *)

IsSpace(c) == c \in {" ", "\t", "\n"}

RECURSIVE LStrip(_)
LStrip(s) == IF s # <<>> /\ IsSpace(Head(s)) THEN LStrip(Tail(s)) ELSE s

Strip(s) == Reverse(LStrip(Reverse(LStrip(s))))

LowerChar(c) == IF c = "Y" THEN "y" ELSE IF c = "N" THEN "n" ELSE c

Lower(s) == [i \in 1..Len(s) |-> LowerChar(s[i])]

\* input(...).strip().lower()
Normalize(resp) == Lower(Strip(resp))

\* Accepted without the default: only "y" is a yes
AcceptedOnlyY(confirm) == confirm = <<"y">>

\* confirm == "" or confirm == "y"
Accepted(confirm) == confirm = <<>> \/ confirm = <<"y">>

(* ---------------------------------------------------------------------- *)
(* State                                                                   *)
(* ---------------------------------------------------------------------- *)

VARIABLES
  fks,              \* the schema's foreign keys: records [from, to, col]
  nonNull,          \* <<table, col>> pairs whose column holds a non-null value
  start_table,      \* the table name typed by the user
  pc,               \* position in the program
  visited,          \* dfs: set of visited tables
  traversal,        \* dfs: list of recorded tables
  stack,            \* dfs: call stack, innermost frame last
  tables,           \* set(traversal)
  entries,          \* list of entries, records [name, childOf, parentOf, dumped]
  idx,              \* index of the entry the for loop is at
  made_progress,    \* flag of the current pass
  ordered_to_dump,  \* the result list being built
  remaining,        \* the tables reported as blocked
  response,         \* what the user typed at the last prompt
  prompts,          \* log of the prompts made: <<table, accepted>>
  main_tables,      \* main: the list resolve_recursive_dependencies returned
  truncate_sql,     \* main: lines of the TRUNCATE section
  insert_parts,     \* main: the non-empty dumps, one per table
  dumped_tables,    \* main: tables dump_table was called for, in call order
  outfile,          \* the written file: <<>> or <<[name, content]>>
  prev,             \* what an earlier run on the same database asked and returned
  passes,           \* the number of passes of `while True` begun so far
  error,            \* the exception that left main: <<>> or <<[raised_by, at]>>
  dump_call         \* a call of dump_table on its own: <<>> or <<[table, n, ...]>>

vars ==
  << fks, nonNull, start_table, pc, visited, traversal, stack, tables, entries,
     idx, made_progress, ordered_to_dump, remaining, response, prompts,
     main_tables,
     truncate_sql, insert_parts, dumped_tables, outfile, prev, passes, error,
     dump_call >>

catalogVars == << fks, nonNull, start_table >>
dfsVars == << visited, traversal, stack >>
resolveVars ==
  << tables, entries, idx, made_progress, ordered_to_dump, remaining, response, prompts >>
mainVars == << main_tables, truncate_sql, insert_parts, dumped_tables, outfile >>
runVars == << prev, passes, error, dump_call >>

(* ---------------------------------------------------------------------- *)
(* The Schema Catalog                                                      *)
(* ---------------------------------------------------------------------- *)

\* rows of get_foreign_key_parents(conn, table): (referenced_table, fk_column)
get_foreign_key_parents(table) ==
  {<<e.to, e.col>> : e \in {f \in fks : f.from = table}}

\* rows of get_foreign_key_children(conn, table): (child_table, fk_column)
get_foreign_key_children(table) ==
  {<<e.from, e.col>> : e \in {f \in fks : f.to = table}}

has_non_null_fk_values(table, fk_column) == <<table, fk_column>> \in nonNull

(* ---------------------------------------------------------------------- *)
(* Initial state: a database, a start table, the program about to call     *)
(* dfs(start_table)                                                        *)
(* ---------------------------------------------------------------------- *)

Frame(table, phase, todo) == [table |-> table, phase |-> phase, todo |-> todo]

\* the program's variables at the start of a run
RunStart(root) ==
  /\ pc = "dfs"
  /\ visited = {}
  /\ traversal = <<>>
  /\ stack = <<Frame(root, "call", <<>>)>>
  /\ tables = {}
  /\ entries = <<>>
  /\ idx = 0
  /\ made_progress = FALSE
  /\ ordered_to_dump = <<>>
  /\ remaining = <<>>
  /\ response = <<>>
  /\ prompts = <<>>
  /\ main_tables = <<>>
  /\ truncate_sql = <<>>
  /\ insert_parts = <<>>
  /\ dumped_tables = <<>>
  /\ outfile = <<>>
  /\ passes = 0
  /\ error = <<>>

\* the foreign keys a schema may have: any table may reference any table,
\* itself included, through the column named after the referenced table
EdgeUniverse == {[from |-> f, to |-> t, col |-> FkCol(t)] : f, t \in Tables}

\* the schemas considered: at most MaxEdges foreign keys
Schemas == {F \in SUBSET EdgeUniverse : Cardinality(F) <= MaxEdges}

Init ==
  /\ fks \in Schemas
  /\ nonNull \in SUBSET {<<e.from, e.col>> : e \in fks}
  /\ start_table \in Tables
  /\ RunStart(start_table)
  /\ prev = <<>>
  /\ dump_call = <<>>

(* ---------------------------------------------------------------------- *)
(* Discovery: dfs, with the recursion made an explicit stack of frames     *)
(* ---------------------------------------------------------------------- *)

Top == stack[Len(stack)]

Pop == SubSeq(stack, 1, Len(stack) - 1)

SetTop(f) == [stack EXCEPT ![Len(stack)] = f]

\* FollowEdge without the non-null check: every foreign key is followed
FollowEdgeAlways(owner, target, fk_col, rest) ==
  Append(SetTop([Top EXCEPT !.todo = rest]), Frame(target, "call", <<>>))

\* what dfs does with one row (t, fk_col) of a parents or children list:
\* the recursive call when the FK column holds a value. The column is the
\* referencing table's: `owner` is the table for a parent row, the child
\* itself for a child row.
FollowEdge(owner, target, fk_col, rest) ==
  IF has_non_null_fk_values(owner, fk_col)
  THEN Append(SetTop([Top EXCEPT !.todo = rest]), Frame(target, "call", <<>>))
  ELSE SetTop([Top EXCEPT !.todo = rest])

\* DfsEnter with traversal.append(table) placed before the visited check
DfsEnterRecordsFirst ==
  /\ pc = "dfs" /\ stack # <<>> /\ Top.phase = "call"
  /\ traversal' = IF Top.table \in visited THEN Append(traversal, Top.table)
                  ELSE traversal
  /\ IF Top.table \in visited
     THEN /\ stack' = Pop
          /\ UNCHANGED visited
     ELSE /\ visited' = visited \cup {Top.table}
          /\ \E parents \in Orderings(get_foreign_key_parents(Top.table)) :
               stack' = SetTop(Frame(Top.table, "parents", parents))
  /\ UNCHANGED pc
  /\ UNCHANGED << catalogVars, resolveVars, mainVars, runVars >>

\* dfs(table) is entered: return at once when visited, else mark visited
\* and fetch the parents
DfsEnter ==
  /\ pc = "dfs" /\ stack # <<>> /\ Top.phase = "call"
  /\ IF Top.table \in visited
     THEN /\ stack' = Pop
          /\ UNCHANGED visited
     ELSE /\ visited' = visited \cup {Top.table}
          /\ \E parents \in Orderings(get_foreign_key_parents(Top.table)) :
               stack' = SetTop(Frame(Top.table, "parents", parents))
  /\ UNCHANGED << traversal, pc >>
  /\ UNCHANGED << catalogVars, resolveVars, mainVars, runVars >>

\* one iteration of `for p, fk_col in parents`
DfsParent ==
  /\ pc = "dfs" /\ stack # <<>> /\ Top.phase = "parents" /\ Top.todo # <<>>
  /\ LET p == Head(Top.todo)[1]
         fk_col == Head(Top.todo)[2]
     IN  stack' = FollowEdge(Top.table, p, fk_col, Tail(Top.todo))
  /\ UNCHANGED << visited, traversal, pc >>
  /\ UNCHANGED << catalogVars, resolveVars, mainVars, runVars >>

\* DfsRecord with traversal.append(table) inside the parents loop: a table
\* without parent rows is not recorded
DfsRecordInLoop ==
  /\ pc = "dfs" /\ stack # <<>> /\ Top.phase = "parents" /\ Top.todo = <<>>
  /\ traversal' = IF get_foreign_key_parents(Top.table) = {} THEN traversal
                  ELSE Append(traversal, Top.table)
  /\ \E children \in Orderings(get_foreign_key_children(Top.table)) :
       stack' = SetTop(Frame(Top.table, "children", children))
  /\ UNCHANGED << visited, pc >>
  /\ UNCHANGED << catalogVars, resolveVars, mainVars, runVars >>

\* traversal.append(table), then the children are fetched
DfsRecord ==
  /\ pc = "dfs" /\ stack # <<>> /\ Top.phase = "parents" /\ Top.todo = <<>>
  /\ traversal' = Append(traversal, Top.table)
  /\ \E children \in Orderings(get_foreign_key_children(Top.table)) :
       stack' = SetTop(Frame(Top.table, "children", children))
  /\ UNCHANGED << visited, pc >>
  /\ UNCHANGED << catalogVars, resolveVars, mainVars, runVars >>

\* DfsChild without the recursive call: the children are not explored
DfsChildNotFollowed ==
  /\ pc = "dfs" /\ stack # <<>> /\ Top.phase = "children" /\ Top.todo # <<>>
  /\ stack' = SetTop([Top EXCEPT !.todo = Tail(Top.todo)])
  /\ UNCHANGED << visited, traversal, pc >>
  /\ UNCHANGED << catalogVars, resolveVars, mainVars, runVars >>

\* one iteration of `for c, fk_col in children`
DfsChild ==
  /\ pc = "dfs" /\ stack # <<>> /\ Top.phase = "children" /\ Top.todo # <<>>
  /\ LET c == Head(Top.todo)[1]
         fk_col == Head(Top.todo)[2]
     IN  stack' = FollowEdge(c, c, fk_col, Tail(Top.todo))
  /\ UNCHANGED << visited, traversal, pc >>
  /\ UNCHANGED << catalogVars, resolveVars, mainVars, runVars >>

\* dfs(table) returns after its children loop
DfsReturn ==
  /\ pc = "dfs" /\ stack # <<>> /\ Top.phase = "children" /\ Top.todo = <<>>
  /\ stack' = Pop
  /\ UNCHANGED << visited, traversal, pc >>
  /\ UNCHANGED << catalogVars, resolveVars, mainVars, runVars >>

(* ---------------------------------------------------------------------- *)
(* After discovery: the set of tables and one entry per table              *)
(* ---------------------------------------------------------------------- *)

\* dfs(start_table) has returned: `if not traversal: return []`, else
\* tables = set(traversal) and the entries are built next
Discovered ==
  /\ pc = "dfs" /\ stack = <<>>
  /\ IF traversal = <<>>
     THEN /\ pc' = "returned"
          /\ main_tables' = <<>>
          /\ UNCHANGED tables
     ELSE /\ pc' = "build"
          /\ tables' = Range(traversal)
          /\ UNCHANGED main_tables
  /\ UNCHANGED << entries, idx, made_progress, ordered_to_dump, remaining, response, prompts >>
  /\ UNCHANGED << truncate_sql, insert_parts, dumped_tables, outfile >>
  /\ UNCHANGED << catalogVars, dfsVars, runVars >>

\* LiveParents with the non-null check made on the parent table's column
LiveParentsParentColumn(t, rows) ==
  LET keep(r) == r[1] \in tables /\ has_non_null_fk_values(r[1], r[2])
      kept == SelectSeq(rows, keep)
  IN  [i \in 1..Len(kept) |-> kept[i][1]]

\* [p for p, fk_col in rows if p in tables and has_non_null_fk_values(t, fk_col)]
LiveParents(t, rows) ==
  LET keep(r) == r[1] \in tables /\ has_non_null_fk_values(t, r[2])
      kept == SelectSeq(rows, keep)
  IN  [i \in 1..Len(kept) |-> kept[i][1]]

\* [c for c, fk_col in rows if c in tables and has_non_null_fk_values(c, fk_col)]
LiveChildren(t, rows) ==
  LET keep(r) == r[1] \in tables /\ has_non_null_fk_values(r[1], r[2])
      kept == SelectSeq(rows, keep)
  IN  [i \in 1..Len(kept) |-> kept[i][1]]

\* EntryOrder without sorted(): the entries in the order of discovery
EntryOrderTraversal == traversal

\* the tables in the order the entries are built in: `for t in sorted(tables)`
EntryOrder == Sorted(tables)

\* one iteration of `for t in sorted(tables)`: the entry of t is appended
BuildEntry ==
  /\ pc = "build" /\ Len(entries) < Cardinality(tables)
  /\ LET t == EntryOrder[Len(entries) + 1]
     IN  \E prows \in Orderings(get_foreign_key_parents(t)),
            crows \in Orderings(get_foreign_key_children(t)) :
           entries' = Append(entries,
                             [name |-> t,
                              childOf |-> LiveParents(t, prows),
                              parentOf |-> LiveChildren(t, crows),
                              dumped |-> FALSE])
  /\ pc' = IF Len(entries) + 1 = Cardinality(tables) THEN "while" ELSE "build"
  /\ UNCHANGED << tables, idx, made_progress, ordered_to_dump, remaining, response, prompts >>
  /\ UNCHANGED << catalogVars, dfsVars, mainVars, runVars >>

(* ---------------------------------------------------------------------- *)
(* The multi-pass ordering                                                 *)
(* ---------------------------------------------------------------------- *)

\* top of `while True`: made_progress = False and the for loop starts
PassBegin ==
  /\ pc = "while"
  /\ made_progress' = FALSE
  /\ idx' = 1
  /\ passes' = passes + 1
  /\ pc' = "for"
  /\ UNCHANGED << tables, entries, ordered_to_dump, remaining, response, prompts >>
  /\ UNCHANGED << catalogVars, dfsVars, mainVars, prev, error, dump_call >>

\* `if entry["dumped"]: continue`
EntryDumped ==
  /\ pc = "for" /\ idx <= Len(entries)
  /\ entries[idx].dumped
  /\ idx' = idx + 1
  /\ UNCHANGED << pc, tables, entries, made_progress, ordered_to_dump, remaining, response, prompts >>
  /\ UNCHANGED << catalogVars, dfsVars, mainVars, runVars >>

\* `if not entry["childOf"]` is false: the entry is passed over
EntryBlocked ==
  /\ pc = "for" /\ idx <= Len(entries)
  /\ ~entries[idx].dumped
  /\ entries[idx].childOf # <<>>
  /\ idx' = idx + 1
  /\ UNCHANGED << pc, tables, entries, made_progress, ordered_to_dump, remaining, response, prompts >>
  /\ UNCHANGED << catalogVars, dfsVars, mainVars, runVars >>

\* MarkDumped without the loop over the other entries
MarkDumpedOnly(name) == [entries EXCEPT ![idx].dumped = TRUE]

\* MarkDumped that empties every entry's childOf instead of removing name
MarkDumpedClearsAll(name) ==
  [i \in 1..Len(entries) |->
     [entries[i] EXCEPT !.dumped = IF i = idx THEN TRUE ELSE @,
                        !.childOf = <<>>]]

\* entry["dumped"] = True for the entry at idx, and name removed from every
\* entry's childOf
MarkDumped(name) ==
  [i \in 1..Len(entries) |->
     [entries[i] EXCEPT !.dumped = IF i = idx THEN TRUE ELSE @,
                        !.childOf = IF name \in Range(@) THEN Without(@, name) ELSE @]]

\* the responses the user may give when asked about a table: any, but with
\* the same answer as before when the program is run again with the same
\* answers
ResponsesFor(name) ==
  IF prev # <<>> /\ \E a \in BOOLEAN : <<name, a>> \in Range(prev[1].prompts)
  THEN {r \in Responses : <<name, Accepted(Normalize(r))>> \in Range(prev[1].prompts)}
  ELSE Responses

\* ConfirmedBranch without the loop that removes the table from the others'
\* childOf: only a declined table unblocks its dependents
ConfirmedBranchKeepsChildOf(name) ==
  /\ ordered_to_dump' = Append(ordered_to_dump, name)
  /\ entries' = [entries EXCEPT ![idx].dumped = TRUE]

\* the branch `if confirm == "" or confirm == "y"`
ConfirmedBranch(name) ==
  /\ ordered_to_dump' = Append(ordered_to_dump, name)
  /\ entries' = MarkDumped(name)

\* SkippedBranch that leaves the skipped table in the others' childOf
SkippedBranchKeepsChildOf(name) ==
  /\ UNCHANGED ordered_to_dump
  /\ entries' = [entries EXCEPT ![idx].dumped = TRUE]

\* the else branch: the table is skipped and treated as dumped
SkippedBranch(name) ==
  /\ UNCHANGED ordered_to_dump
  /\ entries' = MarkDumped(name)

\* AtPrompt without the `if not entry["childOf"]` test
AtPromptAnyUndumped ==
  /\ pc = "for" /\ idx <= Len(entries)
  /\ ~entries[idx].dumped

\* the for loop is at an entry that is not dumped and whose childOf is empty:
\* `if not entry["childOf"]` is true and the prompt is next
AtPrompt ==
  /\ pc = "for" /\ idx <= Len(entries)
  /\ ~entries[idx].dumped
  /\ entries[idx].childOf = <<>>

\* the user is asked about the entry at idx and types resp
Prompt(resp) ==
  /\ AtPrompt
  /\ LET name == entries[idx].name
         confirm == Normalize(resp)
     IN  /\ resp \in ResponsesFor(name)
         /\ response' = resp
         /\ prompts' = Append(prompts, <<name, Accepted(confirm)>>)
         /\ IF Accepted(confirm) THEN ConfirmedBranch(name) ELSE SkippedBranch(name)
  /\ made_progress' = TRUE
  /\ idx' = idx + 1
  /\ UNCHANGED << pc, tables, remaining >>
  /\ UNCHANGED << catalogVars, dfsVars, mainVars, runVars >>

\* the user answers "" or "y"
ConfirmYes ==
  /\ AtPrompt
  /\ \E resp \in Responses : Accepted(Normalize(resp)) /\ Prompt(resp)

\* the user answers anything else
ConfirmNo ==
  /\ AtPrompt
  /\ \E resp \in Responses : ~Accepted(Normalize(resp)) /\ Prompt(resp)

\* the for loop is over and the pass made progress: next pass
PassRepeat ==
  /\ pc = "for" /\ idx > Len(entries)
  /\ made_progress
  /\ pc' = "while"
  /\ UNCHANGED << tables, entries, idx, made_progress, ordered_to_dump, remaining, response, prompts >>
  /\ UNCHANGED << catalogVars, dfsVars, mainVars, runVars >>

\* Remaining without the `if not e["dumped"]` filter
RemainingAll == [i \in 1..Len(entries) |-> entries[i].name]

\* [e["name"] for e in entries if not e["dumped"]]
Remaining ==
  LET left == SelectSeq(entries, LAMBDA e : ~e.dumped)
  IN  [i \in 1..Len(left) |-> left[i].name]

\* PassStop without the `if not made_progress` test: the loop is left at the
\* end of a pass whether or not it resolved an entry
PassStopEarly ==
  /\ pc = "for" /\ idx > Len(entries)
  /\ remaining' = Remaining
  /\ main_tables' = ordered_to_dump
  /\ pc' = "returned"
  /\ UNCHANGED << tables, entries, idx, made_progress, ordered_to_dump, response, prompts >>
  /\ UNCHANGED << truncate_sql, insert_parts, dumped_tables, outfile >>
  /\ UNCHANGED << catalogVars, dfsVars, runVars >>

\* the for loop is over and the pass made no progress: the loop is left,
\* the still blocked tables are reported and ordered_to_dump is returned
PassStop ==
  /\ pc = "for" /\ idx > Len(entries)
  /\ ~made_progress
  /\ remaining' = Remaining
  /\ main_tables' = ordered_to_dump
  /\ pc' = "returned"
  /\ UNCHANGED << tables, entries, idx, made_progress, ordered_to_dump, response, prompts >>
  /\ UNCHANGED << truncate_sql, insert_parts, dumped_tables, outfile >>
  /\ UNCHANGED << catalogVars, dfsVars, runVars >>

(* ---------------------------------------------------------------------- *)
(* main: the TRUNCATE section, the INSERT section, the file                *)
(* ---------------------------------------------------------------------- *)

\* a line of the output
Line(k, t, rows) == [k |-> k, t |-> t, rows |-> rows]

Blank == Line("", "", <<>>)

InsertStmt(table, batch) == Line("INSERT INTO", table, batch)

\* the loop `for row in rows` of dump_table, then `if batch:`
RECURSIVE DumpRows(_, _, _, _)
DumpRows(table, rows, batch, sql) ==
  IF rows = <<>>
  THEN IF batch # <<>> THEN Append(sql, InsertStmt(table, batch)) ELSE sql
  ELSE LET b == Append(batch, Head(rows))
       IN  IF Len(b) = BatchSize
           THEN DumpRows(table, Tail(rows), <<>>, Append(sql, InsertStmt(table, b)))
           ELSE DumpRows(table, Tail(rows), b, sql)

\* DumpRows without the `if batch:` after the loop
RECURSIVE DumpRowsFullBatches(_, _, _, _)
DumpRowsFullBatches(table, rows, batch, sql) ==
  IF rows = <<>>
  THEN sql
  ELSE LET b == Append(batch, Head(rows))
       IN  IF Len(b) = BatchSize
           THEN DumpRowsFullBatches(table, Tail(rows), <<>>, Append(sql, InsertStmt(table, b)))
           ELSE DumpRowsFullBatches(table, Tail(rows), b, sql)

\* dump_table that emits the full batches only
dump_table_full_batches(table, rows) ==
  IF rows = <<>>
  THEN <<>>
  ELSE Append(DumpRowsFullBatches(table, rows, <<>>,
                                  <<Line("-- Dump of table", table, <<>>)>>), Blank)

\* dump_table(conn, table) for a table whose fetched rows are `rows`: the
\* lines of the returned text, <<>> for the empty string
dump_table(table, rows) ==
  IF rows = <<>>
  THEN <<>>
  ELSE Append(DumpRows(table, rows, <<>>, <<Line("-- Dump of table", table, <<>>)>>), Blank)

\* the numbers of rows fetch_all_rows may return for a table: a table with a
\* non-null value in some column has a row
RowCounts(table) ==
  IF \E c \in Cols : <<table, c>> \in nonNull THEN 1..MaxRows ELSE 0..MaxRows

\* TruncateSection without reversed()
TruncateSectionForward(ts) ==
  <<Line("-- TRUNCATE tables (children to parents)", "", <<>>)>>
    \o [i \in 1..Len(ts) |-> Line("TRUNCATE TABLE", ts[i], <<>>)]

\* the TRUNCATE section: the header, then `for t in reversed(tables)`
TruncateSection(ts) ==
  <<Line("-- TRUNCATE tables (children to parents)", "", <<>>)>>
    \o [i \in 1..Len(ts) |-> Line("TRUNCATE TABLE", Reverse(ts)[i], <<>>)]

BuildTruncate ==
  /\ pc = "returned"
  /\ truncate_sql' = TruncateSection(main_tables)
  /\ pc' = "insert"
  /\ UNCHANGED << main_tables, insert_parts, dumped_tables, outfile >>
  /\ UNCHANGED << catalogVars, dfsVars, resolveVars, runVars >>

\* one iteration of `for t in tables`: dump_table(conn, t), kept when not empty
DumpStep ==
  /\ pc = "insert" /\ Len(dumped_tables) < Len(main_tables)
  /\ LET t == main_tables[Len(dumped_tables) + 1]
     IN  /\ dumped_tables' = Append(dumped_tables, t)
         /\ \E n \in RowCounts(t) :
              LET dump == dump_table(t, [i \in 1..n |-> i])
              IN  insert_parts' = IF dump # <<>> THEN Append(insert_parts, dump)
                                  ELSE insert_parts
  /\ UNCHANGED << pc, main_tables, truncate_sql, outfile >>
  /\ UNCHANGED << catalogVars, dfsVars, resolveVars, runVars >>

RECURSIVE Concat(_)
Concat(parts) == IF parts = <<>> THEN <<>> ELSE Head(parts) \o Concat(Tail(parts))

\* dump_sql is written to <start_table>_recursive_dump.sql
WriteFile ==
  /\ pc = "insert" /\ Len(dumped_tables) = Len(main_tables)
  /\ outfile' = <<[name |-> start_table,
                   content |-> truncate_sql \o <<Blank>> \o Concat(insert_parts)]>>
  /\ pc' = "done"
  /\ UNCHANGED << main_tables, truncate_sql, insert_parts, dumped_tables >>
  /\ UNCHANGED << catalogVars, dfsVars, resolveVars, runVars >>

\* the program is run again on the same database with the same start table;
\* what the finished run asked and returned is kept for comparison
Rerun ==
  /\ pc = "done" /\ prev = <<>>
  /\ prev' = Append(prev, [order |-> main_tables, prompts |-> prompts,
                           blocked |-> remaining, traversal |-> traversal])
  /\ pc' = "dfs"
  /\ visited' = {}
  /\ traversal' = <<>>
  /\ stack' = <<Frame(start_table, "call", <<>>)>>
  /\ tables' = {}
  /\ entries' = <<>>
  /\ idx' = 0
  /\ made_progress' = FALSE
  /\ ordered_to_dump' = <<>>
  /\ remaining' = <<>>
  /\ response' = <<>>
  /\ prompts' = <<>>
  /\ main_tables' = <<>>
  /\ truncate_sql' = <<>>
  /\ insert_parts' = <<>>
  /\ dumped_tables' = <<>>
  /\ outfile' = <<>>
  /\ passes' = 0
  /\ UNCHANGED << catalogVars, error, dump_call >>

(* ---------------------------------------------------------------------- *)
(* Specifications                                                          *)
(* ---------------------------------------------------------------------- *)

Next ==
  \/ DfsEnter \/ DfsParent \/ DfsRecord \/ DfsChild \/ DfsReturn
  \/ Discovered \/ BuildEntry
  \/ PassBegin \/ EntryDumped \/ EntryBlocked \/ ConfirmYes \/ ConfirmNo
  \/ PassRepeat \/ PassStop
  \/ BuildTruncate \/ DumpStep \/ WriteFile

\* one run of the program
Spec == Init /\ [][Next]_vars

\* the program run twice on the same database with the same answers
SpecRerun == Init /\ [][Next \/ Rerun]_vars

(* ---------------------------------------------------------------------- *)
(* A collaborator call that raises. No function of the program has a try   *)
(* block, so the exception leaves dfs, resolve_recursive_dependencies or   *)
(* dump_table and then main, before main reaches open(outfile, "w").       *)
(* ---------------------------------------------------------------------- *)

\* the exception: which collaborator raised it, for which table
Raise(raised_by, at) == [raised_by |-> raised_by, at |-> at]

\* Abort with a handler in main that writes what was built so far
AbortWritesPartial(err) ==
  /\ pc' = "aborted"
  /\ error' = <<err>>
  /\ outfile' = <<[name |-> start_table,
                   content |-> truncate_sql \o <<Blank>> \o Concat(insert_parts)]>>
  /\ UNCHANGED << main_tables, truncate_sql, insert_parts >>
  /\ UNCHANGED << catalogVars, stack, resolveVars, prev, passes, dump_call >>

\* the exception err leaves main: nothing catches it, nothing is retried,
\* the statements after the failing call are not executed
Abort(err) ==
  /\ pc' = "aborted"
  /\ error' = <<err>>
  /\ outfile' = outfile
  /\ UNCHANGED << main_tables, truncate_sql, insert_parts >>
  /\ UNCHANGED << catalogVars, stack, resolveVars, prev, passes, dump_call >>

\* a catalog query of dfs raises: the parents query after visited.add, the
\* non-null check of a parent row, the children query after
\* traversal.append, the non-null check of a child row
DfsFails ==
  /\ pc = "dfs" /\ stack # <<>>
  /\ \/ /\ Top.phase = "call" /\ Top.table \notin visited
        /\ visited' = visited \cup {Top.table}
        /\ UNCHANGED traversal
        /\ Abort(Raise("get_foreign_key_parents", Top.table))
     \/ /\ Top.phase = "parents" /\ Top.todo # <<>>
        /\ UNCHANGED << visited, traversal >>
        /\ Abort(Raise("has_non_null_fk_values", Top.table))
     \/ /\ Top.phase = "parents" /\ Top.todo = <<>>
        /\ traversal' = Append(traversal, Top.table)
        /\ UNCHANGED visited
        /\ Abort(Raise("get_foreign_key_children", Top.table))
     \/ /\ Top.phase = "children" /\ Top.todo # <<>>
        /\ UNCHANGED << visited, traversal >>
        /\ Abort(Raise("has_non_null_fk_values", Head(Top.todo)[1]))
  /\ UNCHANGED dumped_tables

\* the collaborators called while the entry of t is built: both queries, and
\* the non-null check for a row whose other table is in the set
BuildCalls(t) ==
  {"get_foreign_key_parents", "get_foreign_key_children"}
    \cup (IF \/ \E r \in get_foreign_key_parents(t) : r[1] \in tables
             \/ \E r \in get_foreign_key_children(t) : r[1] \in tables
          THEN {"has_non_null_fk_values"} ELSE {})

\* a catalog query raises while the entry of a table is built
BuildFails ==
  /\ pc = "build" /\ Len(entries) < Cardinality(tables)
  /\ LET t == EntryOrder[Len(entries) + 1]
     IN  \E c \in BuildCalls(t) : Abort(Raise(c, t))
  /\ UNCHANGED << visited, traversal, dumped_tables >>

\* get_primary_key or fetch_all_rows raises in dump_table(conn, t)
DumpFails ==
  /\ pc = "insert" /\ Len(dumped_tables) < Len(main_tables)
  /\ LET t == main_tables[Len(dumped_tables) + 1]
     IN  /\ dumped_tables' = Append(dumped_tables, t)
         /\ \E c \in {"get_primary_key", "fetch_all_rows"} : Abort(Raise(c, t))
  /\ UNCHANGED << visited, traversal >>

(* ---------------------------------------------------------------------- *)
(* dump_table on its own, for a table with any number of rows up to        *)
(* MaxFetched                                                              *)
(* ---------------------------------------------------------------------- *)

\* a table and the number of rows fetch_all_rows returns for it
InitDump ==
  /\ fks = {}
  /\ nonNull = {}
  /\ start_table \in Tables
  /\ RunStart(start_table)
  /\ prev = <<>>
  /\ \E n \in 0..MaxFetched :
       dump_call = <<[table |-> start_table, n |-> n, called |-> FALSE, result |-> <<>>]>>

\* dump = dump_table(conn, t)
CallDumpTable ==
  /\ dump_call # <<>> /\ ~dump_call[1].called
  /\ dump_call' = <<[dump_call[1] EXCEPT
                       !.called = TRUE,
                       !.result = dump_table(dump_call[1].table,
                                             [i \in 1..dump_call[1].n |-> i])]>>
  /\ UNCHANGED << catalogVars, pc, dfsVars, resolveVars, mainVars, prev, passes, error >>

SpecDump == InitDump /\ [][CallDumpTable]_vars

\* one run of the program that is not suspended for ever: the interpreter
\* executes the next statement, and the user answers each prompt
SpecFair == Spec /\ WF_vars(Next)

\* one run of the program on a database whose queries may fail
SpecFail == Init /\ [][Next \/ DfsFails \/ BuildFails \/ DumpFails]_vars

(* ---------------------------------------------------------------------- *)
(* Vocabulary of the properties                                            *)
(* ---------------------------------------------------------------------- *)

\* T references P through a foreign key whose column holds a non-null value
LiveEdge(T, P) ==
  \E e \in fks : e.from = T /\ e.to = P /\ <<T, e.col>> \in nonNull

\* a then b, both in the list s
Before(s, a, b) ==
  /\ IndexOf(s, a) > 0
  /\ IndexOf(s, b) > 0
  /\ IndexOf(s, a) < IndexOf(s, b)

\* in the list s every table comes after those of its live parents that are in s
ParentsFirst(s) ==
  \A T, P \in Range(s) : LiveEdge(T, P) => Before(s, P, T)

IsPrefix(s, t) == Len(s) <= Len(t) /\ SubSeq(t, 1, Len(s)) = s

NoDuplicates(s) == \A i, j \in 1..Len(s) : s[i] = s[j] => i = j

\* the tables a live edge joins to t, in either direction
LiveNeighbours(t) == {u \in Tables : LiveEdge(t, u) \/ LiveEdge(u, t)}

\* the tables reachable from those of S through live edges in either direction
RECURSIVE LiveClosure(_)
LiveClosure(S) ==
  LET N == S \cup UNION {LiveNeighbours(t) : t \in S}
  IN  IF N = S THEN S ELSE LiveClosure(N)

\* the tables t depends on through one or more live parent edges
RECURSIVE AncestorsFrom(_)
AncestorsFrom(S) ==
  LET N == S \cup {p \in Tables : \E t \in S : LiveEdge(t, p)}
  IN  IF N = S THEN S ELSE AncestorsFrom(N)

LiveAncestors(t) == AncestorsFrom({p \in Tables : LiveEdge(t, p)})

\* the tables the user was asked about, accepted, declined
Prompted == {prompts[i][1] : i \in 1..Len(prompts)}

AcceptedTables == {t \in Tables : <<t, TRUE>> \in Range(prompts)}

DeclinedTables == {t \in Tables : <<t, FALSE>> \in Range(prompts)}

\* the names of the entries not yet marked dumped
Unresolved == {entries[i].name : i \in {j \in 1..Len(entries) : ~entries[j].dumped}}

\* resolve_recursive_dependencies has returned
Resolved == pc \in {"returned", "insert", "done"}

(* ---------------------------------------------------------------------- *)
(* C1                                                                      *)
(* ---------------------------------------------------------------------- *)

\* C1: in the list being built, and in the list returned (also after a
\* deadlock), every included table comes after each of its included live
\* parents.
C1_ParentsBeforeChildren ==
  /\ ParentsFirst(ordered_to_dump)
  /\ ParentsFirst(main_tables)

\* a deadlock with a partial list that holds a child and its live parent
C1_Witness ==
  /\ pc = "returned"
  /\ remaining # <<>>
  /\ \E T, P \in Range(main_tables) : T # P /\ LiveEdge(T, P)

(* ---------------------------------------------------------------------- *)
(* C2                                                                      *)
(* ---------------------------------------------------------------------- *)

\* C2: once discovery is over, the set of tables is exactly the set reachable
\* from the start table through live edges followed in either direction, and
\* no other table is ever put in the order.
C2_RelevantSetIsLiveReachable ==
  LET reachable == LiveClosure({start_table})
  IN  /\ pc # "dfs" => tables = reachable
      /\ Range(ordered_to_dump) \subseteq reachable

\* discovery ended with several tables, and left out a table that a table of
\* the set references through an all-null column
C2_Witness ==
  /\ pc = "build"
  /\ Cardinality(tables) >= 2
  /\ \E e \in fks : e.from \in tables /\ e.to \notin tables

(* ---------------------------------------------------------------------- *)
(* C3                                                                      *)
(* ---------------------------------------------------------------------- *)

\* the start table has a live foreign key to itself and the schema has no
\* other foreign key from it or to it
SelfReferenceOnly ==
  /\ LiveEdge(start_table, start_table)
  /\ \A e \in fks : (e.from = start_table \/ e.to = start_table) => e.from = e.to

\* C3: a table whose only edges are a live self-reference resolves to
\* [table]: its self-edge is not in its childOf, it is not left blocked.
C3_SelfReferenceResolves ==
  (Resolved /\ SelfReferenceOnly /\ DeclinedTables = {}) =>
     /\ main_tables = <<start_table>>
     /\ remaining = <<>>
     /\ \A i \in 1..Len(entries) : entries[i].name \notin Range(entries[i].childOf)

(* ---------------------------------------------------------------------- *)
(* C4                                                                      *)
(* ---------------------------------------------------------------------- *)

\* the for loop has ended a pass that made no progress
NoProgressPass == pc = "for" /\ idx > Len(entries) /\ ~made_progress

\* C4: when a pass made no progress and entries are unresolved, no unresolved
\* entry is ready: each has an unresolved table in its childOf. Resolution
\* then returns the list built so far and reports exactly the unresolved
\* tables.
C4_DeadlockReportsBlocked ==
  /\ (NoProgressPass \/ Resolved) =>
        \A i \in 1..Len(entries) :
          ~entries[i].dumped =>
             /\ entries[i].childOf # <<>>
             /\ Range(entries[i].childOf) \cap Unresolved # {}
  /\ Resolved =>
        /\ main_tables = ordered_to_dump
        /\ Range(remaining) = Unresolved
        /\ Range(remaining) = tables \ Prompted
        /\ NoDuplicates(remaining)

\* a deadlock with two blocked tables and a partial list
C4_Witness ==
  /\ pc = "returned"
  /\ Len(remaining) >= 2
  /\ main_tables # <<>>
  /\ \E a, b \in Range(remaining) : a # b /\ LiveEdge(a, b) /\ LiveEdge(b, a)

(* ---------------------------------------------------------------------- *)
(* C5                                                                      *)
(* ---------------------------------------------------------------------- *)

\* the live parents of t in the set of tables
LiveParentsOf(t) == {p \in tables : LiveEdge(t, p)}

\* C5: a declined table is marked dumped, is in no entry's childOf and is
\* never in the order; when resolution has ended, every table whose live
\* parents were all asked about (accepted or declined) was asked about too,
\* and is in the returned list when accepted.
C5_DeclineUnblocksDependents ==
  /\ \A t \in DeclinedTables :
       /\ t \notin Range(ordered_to_dump)
       /\ t \notin Range(main_tables)
       /\ \A i \in 1..Len(entries) :
            /\ entries[i].name = t => entries[i].dumped
            /\ t \notin Range(entries[i].childOf)
  /\ Resolved =>
       \A t \in tables :
         LiveParentsOf(t) \subseteq Prompted =>
            /\ t \in Prompted
            /\ t \in AcceptedTables => t \in Range(main_tables)

\* A references B, B was declined and then A accepted: the list is [A]
C5_Witness ==
  /\ pc = "returned"
  /\ LiveEdge("A", "B")
  /\ prompts = << <<"B", FALSE>>, <<"A", TRUE>> >>
  /\ main_tables = <<"A">>

(* ---------------------------------------------------------------------- *)
(* C6                                                                      *)
(* ---------------------------------------------------------------------- *)

\* C6: the entries are in lexicographic order of table name, and a second
\* run on the same database with the same answers prompts the same tables in
\* the same sequence and returns the same list, whatever the order in which
\* the catalog returns its rows in either run.
C6_Deterministic ==
  /\ \A i, j \in 1..Len(entries) :
       i < j => Rank(entries[i].name) < Rank(entries[j].name)
  /\ prev # <<>> =>
       /\ IsPrefix(prompts, prev[1].prompts)
       /\ IsPrefix(ordered_to_dump, prev[1].order)
       /\ Resolved => /\ prompts = prev[1].prompts
                      /\ main_tables = prev[1].order

\* a second run has ended whose discovery went through the tables in another
\* order than the first, with a table declined
C6_Witness ==
  /\ prev # <<>>
  /\ pc = "done"
  /\ traversal # prev[1].traversal
  /\ Len(main_tables) >= 2
  /\ DeclinedTables # {}

(* ---------------------------------------------------------------------- *)
(* C7                                                                      *)
(* ---------------------------------------------------------------------- *)

\* no table of the set depends on itself through live parent edges
AcyclicLive == \A t \in tables : t \notin LiveAncestors(t)

\* the tables of the TRUNCATE statements among the lines, in order
TruncationOrder(lines) ==
  LET stmts == SelectSeq(lines, LAMBDA l : l.k = "TRUNCATE TABLE")
  IN  [i \in 1..Len(stmts) |-> stmts[i].t]

\* the live edges are exactly A -> B and B -> C, and the start table is A
ChainABC ==
  /\ start_table = "A"
  /\ \A T, P \in Tables :
       LiveEdge(T, P) <=> (<<T, P>> \in {<<"A", "B">>, <<"B", "C">>})

\* C7: with no live cycle among the tables and every prompt accepted,
\* resolution ends with no blocked table and returns every table of the set
\* once, each after its live parents; the chain A -> B -> C from A gives
\* [C, B, A], truncated in the order [A, B, C].
C7_AcyclicAllAccepted ==
  (Resolved /\ AcyclicLive /\ DeclinedTables = {}) =>
     /\ remaining = <<>>
     /\ Range(main_tables) = tables
     /\ Len(main_tables) = Cardinality(tables)
     /\ \A T \in tables : \A P \in LiveParentsOf(T) : Before(main_tables, P, T)
     /\ ChainABC =>
          /\ main_tables = <<"C", "B", "A">>
          /\ pc # "returned" => TruncationOrder(truncate_sql) = <<"A", "B", "C">>

\* the chain was resolved and dumped
C7_Witness ==
  /\ pc = "done"
  /\ ChainABC
  /\ DeclinedTables = {}
  /\ main_tables = <<"C", "B", "A">>

(* ---------------------------------------------------------------------- *)
(* C8                                                                      *)
(* ---------------------------------------------------------------------- *)

\* C8: the TRUNCATE section has one statement per table of the returned list,
\* in reversed order; dump_table is called for the tables in the order of
\* the list; so the truncation order reversed is the insertion order, and
\* every child is truncated before its included live parents.
C8_TruncateReversesInsert ==
  /\ pc \in {"insert", "done"} =>
       /\ TruncationOrder(truncate_sql) = Reverse(main_tables)
       /\ Len(truncate_sql) = Len(main_tables) + 1
       /\ IsPrefix(dumped_tables, main_tables)
       /\ \A T, P \in Range(main_tables) :
            (LiveEdge(T, P) /\ T # P) => Before(TruncationOrder(truncate_sql), T, P)
  /\ pc = "done" =>
       /\ dumped_tables = main_tables
       /\ Reverse(TruncationOrder(outfile[1].content)) = dumped_tables
       /\ IsPrefix(truncate_sql, outfile[1].content)

\* a file was written for a list holding a child and its live parent
C8_Witness ==
  /\ pc = "done"
  /\ outfile # <<>>
  /\ \E T, P \in Range(main_tables) : T # P /\ LiveEdge(T, P)

(* ---------------------------------------------------------------------- *)
(* C9                                                                      *)
(* ---------------------------------------------------------------------- *)

\* the lines after the blank separator that ends the TRUNCATE section
InsertSection(content) ==
  LET sep == CHOOSE i \in 1..Len(content) :
               content[i] = Blank /\ \A j \in 1..(i - 1) : content[j] # Blank
  IN  SubSeq(content, sep + 1, Len(content))

\* the tables named by the comment lines of the insertion section, in order
BlockTables(content) ==
  LET heads == SelectSeq(InsertSection(content),
                         LAMBDA l : l.t # "" /\ l.k # "INSERT INTO")
  IN  [i \in 1..Len(heads) |-> heads[i].t]

\* C9: the insertion section of the written file has one block per table of
\* the insertion order, in that order, tables without rows included.
C9_BlockPerTable ==
  pc = "done" => BlockTables(outfile[1].content) = main_tables

(* ---------------------------------------------------------------------- *)
(* C10                                                                     *)
(* ---------------------------------------------------------------------- *)

\* C10: whatever is typed at a prompt is taken as a yes or as a no: the
\* table asked about is marked dumped, and is the last of the list when
\* accepted, absent from it otherwise; an empty or whitespace-only response
\* is an acceptance, as "y" is. The dumped entries are those of the tables
\* asked about, and the list holds exactly the accepted ones.
C10_DefaultYes ==
  /\ Prompted = {entries[i].name : i \in {j \in 1..Len(entries) : entries[j].dumped}}
  /\ AcceptedTables \cap DeclinedTables = {}
  /\ Range(ordered_to_dump) = AcceptedTables
  /\ prompts # <<>> =>
       LET name == prompts[Len(prompts)][1]
           accepted == prompts[Len(prompts)][2]
       IN  /\ Strip(response) = <<>> => accepted
           /\ response = <<"y">> => accepted
           /\ \E i \in 1..Len(entries) : entries[i].name = name /\ entries[i].dumped
           /\ accepted => /\ ordered_to_dump # <<>>
                          /\ ordered_to_dump[Len(ordered_to_dump)] = name
           /\ ~accepted => name \notin Range(ordered_to_dump)

\* a whitespace-only response was given and the table is in the list
C10_Witness ==
  /\ response = <<" ">>
  /\ prompts # <<>>
  /\ prompts[Len(prompts)][2]
  /\ prompts[Len(prompts)][1] \in Range(ordered_to_dump)

(* ---------------------------------------------------------------------- *)
(* C11                                                                     *)
(* ---------------------------------------------------------------------- *)

\* the calls main makes after an exception has left it: none
AfterAbort == pc # "aborted"

\* the step in which a collaborator raises ends the run: no prompt is made
\* in it and no file is open
FailingStep ==
  error' # error =>
    /\ error = <<>> /\ Len(error') = 1
    /\ pc' = "aborted"
    /\ prompts' = prompts /\ entries' = entries /\ ordered_to_dump' = ordered_to_dump
    /\ outfile' = <<>>

\* C11: a collaborator call that fails during discovery, entry construction
\* or row formatting aborts the run at once: the error that leaves main is
\* the one the collaborator raised, no step follows it (no retry, no further
\* catalog query, no prompt), and no output file exists, not even a partial
\* one; a file exists only after a run in which no call failed.
C11_FailureAborts ==
  /\ [](pc = "aborted" <=> error # <<>>)
  /\ [](error # <<>> => outfile = <<>>)
  /\ [](outfile # <<>> => pc = "done" /\ error = <<>>)
  /\ [][AfterAbort]_vars
  /\ [][FailingStep]_vars

\* fetch_all_rows failed for the second table of the list, after the dump of
\* the first table had been built
C11_Witness ==
  /\ pc = "aborted"
  /\ error[1].raised_by = "fetch_all_rows"
  /\ insert_parts # <<>>
  /\ outfile = <<>>

(* ---------------------------------------------------------------------- *)
(* C12                                                                     *)
(* ---------------------------------------------------------------------- *)

\* the tables of the set that lie on a cycle of live edges, self-loops included
OnLiveCycle == {t \in tables : t \in LiveAncestors(t)}

\* the set holds a live cycle through two tables or more, and no table of
\* the set references itself through a live edge
ProperLiveCycle ==
  /\ \E t, u \in tables : t # u /\ u \in LiveAncestors(t) /\ t \in LiveAncestors(u)
  /\ \A t \in tables : ~LiveEdge(t, t)

\* whatever the user answers, a set that holds a live cycle ends with the
\* tables of the cycle unresolved, and none of them was ever asked about
LiveCycleAlwaysBlocks ==
  /\ OnLiveCycle \cap Prompted = {}
  /\ (Resolved /\ pc # "aborted" /\ tables # {}) => OnLiveCycle \subseteq Range(remaining)

\* C12: declining is a mechanism for breaking a cycle: for a relevant set
\* that holds a live cycle there are answers, declines among them, under
\* which resolution ends with no unresolved entry; so the run in which the
\* user accepts nothing, declining whatever is asked, ends without deadlock.
C12_DeclineBreaksCycle ==
  (Resolved /\ ProperLiveCycle /\ AcceptedTables = {}) => remaining = <<>>

(* ---------------------------------------------------------------------- *)
(* C13                                                                     *)
(* ---------------------------------------------------------------------- *)

\* the tables whose call of dfs is past the visited check and not yet at
\* traversal.append, one per frame
Exploring ==
  [i \in 1..Len(SelectSeq(stack, LAMBDA f : f.phase = "parents")) |->
     SelectSeq(stack, LAMBDA f : f.phase = "parents")[i].table]

\* the tables whose call of dfs is in its children loop, one per frame
Recorded ==
  [i \in 1..Len(SelectSeq(stack, LAMBDA f : f.phase = "children")) |->
     SelectSeq(stack, LAMBDA f : f.phase = "children")[i].table]

\* no table is entered twice: the calls past the visited check are for
\* different tables, a table is visited from the moment it is explored and
\* recorded after its parents were
EnteredOnce ==
  /\ NoDuplicates(traversal)
  /\ NoDuplicates(Exploring \o Recorded)
  /\ Range(Exploring) \cap Range(traversal) = {}
  /\ Range(Recorded) \subseteq Range(traversal)
  /\ visited = Range(Exploring) \cup Range(traversal)

\* the step that fetches the parents of a table is the one that marks it
\* visited, and the table was not visited before
ParentsFetchedOnce ==
  (pc = "dfs" /\ stack # <<>> /\ Top.phase = "call"
     /\ Len(stack') = Len(stack) /\ stack'[Len(stack')].phase = "parents")
  => /\ Top.table \notin visited
     /\ visited' = visited \cup {Top.table}

\* the step that fetches the children of a table is the one that records
\* it, and the table was not recorded before
ChildrenFetchedOnce ==
  (pc = "dfs" /\ stack # <<>> /\ Top.phase = "parents"
     /\ Len(stack') = Len(stack) /\ stack'[Len(stack')].phase = "children")
  => /\ Top.table \notin Range(traversal)
     /\ traversal' = Append(traversal, Top.table)

\* C13: discovery ends on every graph, cycles and self-references included,
\* and enters each table at most once: a table is marked visited before its
\* parents are explored, its parent rows and its child rows are fetched at
\* most once, and the recorded traversal holds no table twice.
C13_DiscoveryTerminates ==
  /\ <>(pc # "dfs")
  /\ []EnteredOnce
  /\ [][visited \subseteq visited' /\ IsPrefix(traversal, traversal')]_vars
  /\ [][ParentsFetchedOnce]_vars
  /\ [][ChildrenFetchedOnce]_vars

\* discovery has ended on a set with a live cycle through two tables and a
\* live self-reference
C13_Witness ==
  /\ pc = "build"
  /\ \E t, u \in tables : t # u /\ LiveEdge(t, u) /\ LiveEdge(u, t)
  /\ \E t \in tables : LiveEdge(t, t)
  /\ Len(traversal) = Cardinality(tables)

(* ---------------------------------------------------------------------- *)
(* C14                                                                     *)
(* ---------------------------------------------------------------------- *)

\* the entries resolved so far, accepted or declined
ResolvedCount == Cardinality({i \in 1..Len(entries) : entries[i].dumped})

\* every pass but the last resolved an entry: there are never more passes
\* than resolved entries plus one, and a pass is repeated only after as many
\* entries were resolved as passes were made
PassesResolve ==
  /\ passes <= ResolvedCount + 1
  /\ passes <= Cardinality(tables) + 1
  /\ pc = "while" => passes <= ResolvedCount
  /\ (pc = "for" /\ made_progress) => passes <= ResolvedCount

\* the end of a pass: the next pass after progress, or the loop is left
\* after none, with the unresolved entries reported
PassEnd ==
  (pc = "for" /\ pc' # "for") =>
    \/ /\ made_progress
       /\ pc' = "while"
    \/ /\ ~made_progress
       /\ pc' = "returned"
       /\ Range(remaining') = Unresolved

\* the loop was left in one of the two outcomes: no entry is unresolved and
\* none is reported, or the last pass could prompt no unresolved entry and
\* all of them are reported
TwoOutcomes ==
  (pc = "returned" /\ tables # {}) =>
    /\ Range(remaining) = Unresolved
    /\ NoDuplicates(remaining)
    /\ \/ Unresolved = {} /\ remaining = <<>>
       \/ /\ Unresolved # {} /\ remaining # <<>>
          /\ \A i \in 1..Len(entries) : ~entries[i].dumped => entries[i].childOf # <<>>

\* C14: the pass loop ends for every relevant set and every sequence of
\* answers, the user answering each prompt: every pass resolves an entry or
\* ends the loop, and the loop ends either with no unresolved entry or
\* after a pass without progress with the unresolved entries reported.
C14_PassLoopTerminates ==
  /\ (pc = "while") ~> (pc = "returned")
  /\ []PassesResolve
  /\ []TwoOutcomes
  /\ [][PassEnd]_vars

\* a deadlock reported by the third pass, after two passes that each
\* resolved an entry
C14_Witness ==
  /\ pc = "returned"
  /\ passes = 3
  /\ remaining # <<>>
  /\ ResolvedCount = 2

(* ---------------------------------------------------------------------- *)
(* C15                                                                     *)
(* ---------------------------------------------------------------------- *)

\* the tables asked about, in the order of the prompts
PromptedSeq == [i \in 1..Len(prompts) |-> prompts[i][1]]

\* t has an entry that is unresolved and has no pending parent
Ready(t) ==
  \E i \in 1..Len(entries) :
    entries[i].name = t /\ ~entries[i].dumped /\ entries[i].childOf = <<>>

\* a step that calls confirm: the for loop is at an entry that is unresolved
\* and has no pending parent, and the table was not asked about before
ConfirmCall ==
  prompts' # prompts =>
    /\ pc = "for" /\ idx \in 1..Len(entries)
    /\ ~entries[idx].dumped
    /\ entries[idx].childOf = <<>>
    /\ entries[idx].name \notin Prompted
    /\ \E a \in BOOLEAN : prompts' = Append(prompts, <<entries[idx].name, a>>)

\* a ready table stays ready until the step that asks about it
ReadyUntilPrompted ==
  \A t \in Tables : (Ready(t) /\ ~Ready(t)') => t \in Prompted'

\* C15: confirm is called only for a table that is unresolved with no
\* pending parent at the moment of the call, and at most once per table; a
\* table that becomes ready is eventually asked about (it stays ready until
\* it is asked about, and from some moment on no table is ready); a table
\* still blocked at the deadlock was never asked about; no table is twice
\* in the resolved order.
C15_PromptOnlyWhenReady ==
  /\ [][ConfirmCall]_vars
  /\ []NoDuplicates(PromptedSeq)
  /\ []NoDuplicates(ordered_to_dump)
  /\ [](Resolved => Range(remaining) \cap Prompted = {})
  /\ [][ReadyUntilPrompted]_vars
  /\ <>[](\A t \in Tables : ~Ready(t))

\* a deadlock after a table that became ready in the first pass was asked
\* about in the second
C15_Witness ==
  /\ pc = "returned"
  /\ remaining # <<>>
  /\ passes = 3
  /\ \E i \in 1..Len(prompts) : LiveParentsOf(prompts[i][1]) # {}

(* ---------------------------------------------------------------------- *)
(* C16                                                                     *)
(* ---------------------------------------------------------------------- *)

\* the entry at idx is resolved by the step
ResolvedByStep(t) ==
  /\ pc = "for" /\ idx \in 1..Len(entries)
  /\ entries[idx].name = t
  /\ ~entries[idx].dumped
  /\ entries'[idx].dumped

\* what a step may do to the entries that exist: an entry keeps its name,
\* stays dumped once dumped, and loses from childOf nothing but the table
\* resolved by the step
EntriesMonotone ==
  /\ Len(entries') >= Len(entries)
  /\ \A i \in 1..Len(entries) :
       /\ entries'[i].name = entries[i].name
       /\ entries[i].dumped => entries'[i].dumped
       /\ Range(entries'[i].childOf) \subseteq Range(entries[i].childOf)
       /\ Len(entries'[i].childOf) <= Len(entries[i].childOf)
       /\ \A p \in Range(entries[i].childOf) \ Range(entries'[i].childOf) :
            ResolvedByStep(p)
       /\ (~entries[i].dumped /\ entries'[i].dumped) => i = idx

\* the decision about a table: pending, then included or excluded
Decision(log, t) ==
  IF <<t, TRUE>> \in Range(log) THEN "Included"
  ELSE IF <<t, FALSE>> \in Range(log) THEN "Excluded"
  ELSE "Pending"

\* a decision that was made stays as it is
DecisionsFinal ==
  \A t \in Tables :
    Decision(prompts, t) # "Pending" => Decision(prompts', t) = Decision(prompts, t)

\* the resolved order grows by appending, one table at most per step
OrderAppends ==
  /\ IsPrefix(ordered_to_dump, ordered_to_dump')
  /\ Len(ordered_to_dump') <= Len(ordered_to_dump) + 1

\* C16: during resolution the pending parents of an entry only shrink, a
\* table leaves another entry's pending parents only in the step in which
\* that table is itself resolved, a decision goes from pending to included
\* or excluded and never changes afterwards, and the resolved order only
\* grows by appending.
C16_ResolutionMonotone ==
  [][EntriesMonotone /\ DecisionsFinal /\ OrderAppends]_vars

\* an entry with two live parents has lost one of them and still waits for
\* the other, after the first was declined
C16_Witness ==
  /\ pc = "for"
  /\ \E i \in 1..Len(entries) :
       /\ ~entries[i].dumped
       /\ Len(entries[i].childOf) = 1
       /\ Cardinality(LiveParentsOf(entries[i].name)) = 2
       /\ LiveParentsOf(entries[i].name) \ Range(entries[i].childOf) \subseteq DeclinedTables

(* ---------------------------------------------------------------------- *)
(* C17                                                                     *)
(* ---------------------------------------------------------------------- *)

\* the start table has no foreign key and no table references it
RootWithoutEdges ==
  get_foreign_key_parents(start_table) = {} /\ get_foreign_key_children(start_table) = {}

\* C17: the start table is in the relevant set whatever the catalog holds:
\* when dfs(start_table) has returned the traversal is not empty, so the
\* `if not traversal: return []` branch is never taken and the set is never
\* empty; a start table without any edge is alone in the set and, accepted,
\* is the whole result.
C17_RootAlwaysRelevant ==
  /\ (pc = "dfs" /\ stack = <<>>) => (traversal # <<>> /\ start_table \in Range(traversal))
  /\ pc # "dfs" => (start_table \in tables /\ traversal # <<>>)
  /\ (pc # "dfs" /\ RootWithoutEdges) => tables = {start_table}
  /\ (Resolved /\ RootWithoutEdges /\ start_table \in AcceptedTables) =>
       (main_tables = <<start_table>> /\ remaining = <<>>)

\* a start table without edges, in a schema where the other tables have
\* foreign keys, was accepted and is the result
C17_Witness ==
  /\ pc = "returned"
  /\ RootWithoutEdges
  /\ fks # {}
  /\ main_tables = <<start_table>>

(* ---------------------------------------------------------------------- *)
(* C18                                                                     *)
(* ---------------------------------------------------------------------- *)

\* the INSERT statements of a dump, in the order of the text
Statements(dump) == SelectSeq(dump, LAMBDA l : l.k = "INSERT INTO")

\* the rows of the statements, one after the other
RowsOf(stmts) == Concat([i \in 1..Len(stmts) |-> stmts[i].rows])

\* C18: for a table with n >= 1 fetched rows dump_table emits ceil(n /
\* BatchSize) INSERT statements: each holds at most BatchSize rows, all but
\* the last exactly BatchSize, none is empty, and the rows of the statements
\* taken in order are the fetched rows in the fetched order, each once.
C18_BatchedInserts ==
  (dump_call # <<>> /\ dump_call[1].called /\ dump_call[1].n >= 1) =>
    LET n == dump_call[1].n
        stmts == Statements(dump_call[1].result)
    IN  /\ Len(stmts) = (n + BatchSize - 1) \div BatchSize
        /\ \A i \in 1..Len(stmts) :
             /\ stmts[i].t = dump_call[1].table
             /\ Len(stmts[i].rows) \in 1..BatchSize
             /\ i < Len(stmts) => Len(stmts[i].rows) = BatchSize
        /\ RowsOf(stmts) = [i \in 1..n |-> i]

\* a dump of two full statements and a last one that is not full
C18_Witness ==
  /\ dump_call # <<>>
  /\ dump_call[1].called
  /\ dump_call[1].n = 2 * BatchSize + 1
  /\ Len(Statements(dump_call[1].result)) = 3

(* ---------------------------------------------------------------------- *)
(* C19                                                                     *)
(* ---------------------------------------------------------------------- *)

\* what the schema, the data and the start table alone determine: the
\* tables reachable from the start table that lie on a cycle of live edges
\* or depend, through live parent edges, on a table that does
BlockedByGraph ==
  {t \in LiveClosure({start_table}) :
     \/ t \in LiveAncestors(t)
     \/ \E a \in LiveAncestors(t) : a \in LiveAncestors(a)}

\* C19: the outcome of resolution and the tables reported as blocked do not
\* depend on the answers: whatever was answered, the blocked list holds
\* exactly the tables of the set that lie on a live cycle, self-loops
\* included, or depend through live parent edges on one that does, so two
\* runs on the same database end with the same blocked set and a decline
\* never adds a table to it.
C19_BlockedSetIndependentOfAnswers ==
  (Resolved /\ tables # {}) =>
    /\ Range(remaining) = BlockedByGraph
    /\ (remaining = <<>>) <=> (BlockedByGraph = {})
    /\ Unresolved = BlockedByGraph

\* a run in which a table was declined, and the blocked list holds a table
\* on a live cycle and a table outside every cycle that depends on it
C19_Witness ==
  /\ pc = "returned"
  /\ DeclinedTables # {}
  /\ \E t \in Range(remaining) : t \notin LiveAncestors(t)
  /\ \E t \in Range(remaining) : t \in LiveAncestors(t)

(* ---------------------------------------------------------------------- *)
(* C20                                                                     *)
(* ---------------------------------------------------------------------- *)

\* the entries are as entry construction made them: no pass has begun
FreshEntries == pc = "build" \/ (pc = "while" /\ passes = 0)

\* C20: the relevant set is closed under live edges: every live parent of a
\* table of the set and every table with a live foreign key into it is in
\* the set; so the `p in tables` filter of entry construction drops no live
\* parent edge, and the childOf an entry is built with holds every live
\* parent of its table.
C20_ClosedUnderLiveEdges ==
  /\ pc # "dfs" =>
       \A T \in tables : \A P \in Tables :
         (LiveEdge(T, P) \/ LiveEdge(P, T)) => P \in tables
  /\ FreshEntries =>
       \A i \in 1..Len(entries) :
         /\ Range(entries[i].childOf) = {P \in Tables : LiveEdge(entries[i].name, P)}
         /\ Range(entries[i].parentOf) = {c \in Tables : LiveEdge(c, entries[i].name)}

\* the entries are built, one of them with two live parents, in a set where
\* a foreign key between two tables of the set holds only nulls
C20_Witness ==
  /\ pc = "while" /\ passes = 0
  /\ \E i \in 1..Len(entries) : Cardinality(Range(entries[i].childOf)) = 2
  /\ \E e \in fks : e.from \in tables /\ e.to \in tables /\ ~LiveEdge(e.from, e.to)

====
